---- MODULE Spec2Model ----
(***************************************************************************)
(* A model of the kinetic-model fitting core of devhliu/kineticmodel:      *)
(*   src/kineticmodel/kineticmodel.py  (KineticModel.__init__, integrate)  *)
(*   src/kineticmodel/srtm.py          (SRTM_Zhou2003.fit / refine_R1,     *)
(*                                      SRTM_Lammertsma1996.fit,           *)
(*                                      SRTM_Gunn1997.fit)                 *)
(*                                                                         *)
(* Numbers.  The program computes in IEEE double precision (numpy).  The   *)
(* model computes exactly: a number is a pair <<n, d>>, with d > 0 and     *)
(* gcd(n, d) = 1 for the rational n/d, and with d = 0 for the three        *)
(* special values numpy produces instead of raising: <<1, 0>> = +inf,      *)
(* <<-1, 0>> = -inf, <<0, 0>> = NaN (the "missing" marker of the results). *)
(* Rounding is not modelled; division by zero, inf and NaN follow IEEE.    *)
(***************************************************************************)
EXTENDS Integers, Sequences, FiniteSets, TLC

VARIABLES
    call,     \* the arguments of the pending / last call of integrate()
    returned, \* what that call returned (<<>> before it returns)
    raised,   \* the exception the last operation raised ("none" if none)
    ctor,     \* the arguments the constructor was called with
    cls,      \* the class of the instance ("" while none exists)
    self,     \* the KineticModel instance (NoModel while none exists)
    fitArg,   \* the smoothTAC argument of the last call, if it was fit()
    refineArg, \* the arguments of the last call, if it was refine_R1()
    rowsDone, \* rows whose results the last fit() / refine_R1() call wrote
    op        \* the operation that ran last ("" before any)

vars == <<call, returned, raised, ctor, cls, self, fitArg, refineArg, rowsDone, op>>

----------------------------------------------------------------------------
(* Exact arithmetic on the pairs <<n, d>>.                                 *)

RECURSIVE GCD(_, _)
GCD(a, b) == IF b = 0 THEN a ELSE GCD(b, a % b)

Abs(n) == IF n < 0 THEN -n ELSE n

Sgn(n) == IF n < 0 THEN -1 ELSE IF n > 0 THEN 1 ELSE 0

\* the rational n/d, d # 0, in lowest terms with a positive denominator
Norm(n, d) ==
    LET g == GCD(Abs(n), Abs(d))
        s == IF d < 0 THEN -1 ELSE 1
    IN  <<(s * n) \div g, (s * d) \div g>>

NaN == <<0, 0>>
Inf == <<1, 0>>
Zero == <<0, 1>>
One == <<1, 1>>
Two == <<2, 1>>

R(n) == <<n, 1>>

IsNaN(x) == x = NaN
IsFinite(x) == x[2] # 0
IsInf(x) == x[2] = 0 /\ x[1] # 0

FNeg(x) == <<-x[1], x[2]>>

FAbs(x) == <<Abs(x[1]), x[2]>>

FAdd(x, y) ==
    IF IsNaN(x) \/ IsNaN(y) THEN NaN
    ELSE IF IsInf(x) /\ IsInf(y) THEN (IF x = y THEN x ELSE NaN)
    ELSE IF IsInf(x) THEN x
    ELSE IF IsInf(y) THEN y
    ELSE LET g == GCD(x[2], y[2])
         IN  Norm(x[1] * (y[2] \div g) + y[1] * (x[2] \div g), (x[2] \div g) * y[2])

FSub(x, y) == FAdd(x, FNeg(y))

FMul(x, y) ==
    IF IsNaN(x) \/ IsNaN(y) THEN NaN
    ELSE IF IsInf(x) \/ IsInf(y)
         THEN (IF x[1] = 0 \/ y[1] = 0 THEN NaN
               ELSE <<Sgn(x[1]) * Sgn(y[1]), 0>>)
    ELSE LET g == GCD(Abs(x[1]), y[2])
             h == GCD(Abs(y[1]), x[2])
         IN  Norm((x[1] \div g) * (y[1] \div h), (x[2] \div h) * (y[2] \div g))

\* numpy's true division: x/0 is +-inf or NaN (a warning, never an exception)
FDiv(x, y) ==
    IF IsNaN(x) \/ IsNaN(y) THEN NaN
    ELSE IF IsInf(y) THEN (IF IsInf(x) THEN NaN ELSE Zero)
    ELSE IF y[1] = 0 THEN (IF x[1] = 0 THEN NaN ELSE <<Sgn(x[1]), 0>>)
    ELSE IF IsInf(x) THEN <<Sgn(x[1]) * Sgn(y[1]), 0>>
    ELSE FMul(x, Norm(y[2], y[1]))

\* x < y and x <= y as numpy compares: false whenever a NaN is involved
FLess(x, y) ==
    /\ ~IsNaN(x) /\ ~IsNaN(y)
    /\ x # y
    /\ IF IsInf(x) THEN x[1] < 0
       ELSE IF IsInf(y) THEN y[1] > 0
       ELSE x[1] * y[2] < y[1] * x[2]

FLeq(x, y) == ~IsNaN(x) /\ ~IsNaN(y) /\ (x = y \/ FLess(x, y))

\* the sequence f with its entries computed (once)
Tup(f) == f \o <<>>

RECURSIVE FSum(_)
FSum(s) == IF s = <<>> THEN Zero ELSE FAdd(FSum(SubSeq(s, 1, Len(s) - 1)), s[Len(s)])

\* sequences of length n over the set S
SeqsOf(S, n) == [1..n -> S]

----------------------------------------------------------------------------
(* kineticmodel.py: module-level functions                                 *)

startActivity_values == {"flat", "increasing", "zero"}

\* strictly_increasing(L): all(x<y for x, y in zip(L, L[1:]))
strictly_increasing(L) == \A i \in 1..(Len(L) - 1) : FLess(L[i], L[i + 1])

\* the policy's value of the integral over [0, t[0])
initialIntegralValue(TAC, t, startActivity) ==
    CASE startActivity = "flat" -> FMul(t[1], TAC[1])
      [] startActivity = "increasing" -> FDiv(FMul(t[1], TAC[1]), Two)
      [] startActivity = "zero" -> Zero

\* scipy.integrate.cumtrapz(y, x, initial=v):
\*     res = cumsum(diff(x) * (y[1:] + y[:-1]) / 2.0)
\*     res = concatenate([[initial], res])
\* `initial` is inserted in front of the running sum; it is not added to it.
trapz(y, x, j) == FDiv(FMul(FSub(x[j + 1], x[j]), FAdd(y[j + 1], y[j])), Two)

\* np.cumsum: the running sums of a sequence
RECURSIVE cumsum(_)
cumsum(s) ==
    IF Len(s) <= 1 THEN s
    ELSE LET c == cumsum(SubSeq(s, 1, Len(s) - 1))
         IN  Append(c, FAdd(c[Len(c)], s[Len(s)]))

cumtrapz(y, x, initial) ==
    <<initial>> \o cumsum(Tup([j \in 1..(Len(y) - 1) |-> trapz(y, x, j)]))

\* the exception integrate() raises on these arguments, "none" if it returns
integrateRaises(TAC, t, startActivity) ==
    IF Len(t) # Len(TAC) THEN "ValueError"
    ELSE IF startActivity \notin startActivity_values THEN "ValueError"
    ELSE IF Len(t) = 0 THEN "IndexError"
    ELSE "none"

integrate(TAC, t, startActivity) ==
    cumtrapz(TAC, t, initialIntegralValue(TAC, t, startActivity))

----------------------------------------------------------------------------
(* Arrays.  A numpy array is [ndim, v]: v is the sequence of its numbers   *)
(* (ndim = 1) or the sequence of its rows (ndim = 2).  ndim = 0 stands for *)
(* an argument that is not an array (None, or a policy name); ndim = 3 for *)
(* an array of more dimensions, whose content no code path reads.          *)

NoArray == [ndim |-> 0, v |-> <<>>]
Vec(v) == [ndim |-> 1, v |-> v]
Mat(rows) == [ndim |-> 2, v |-> rows]
Cube == [ndim |-> 3, v |-> <<>>]

\* len(a): the size of the first dimension
len(a) == Len(a.v)

\* a.shape
shape(a) ==
    IF a.ndim = 1 THEN <<Len(a.v)>>
    ELSE IF a.ndim = 2 THEN <<Len(a.v), IF Len(a.v) = 0 THEN 0 ELSE Len(a.v[1])>>
    ELSE <<>>

\* np.tile(a, (reps, 1)): reps copies of a stacked below one another; a 1-D
\* array counts as one row
tile(a, reps) ==
    LET rows == IF a.ndim = 1 THEN <<a.v>> ELSE a.v
        m == Len(rows)
    IN  Tup([i \in 1..(reps * m) |-> rows[((i - 1) % m) + 1]])

AllFinite(s) == \A i \in 1..Len(s) : IsFinite(s[i])

----------------------------------------------------------------------------
(* kineticmodel.py: KineticModel.__init__                                  *)

\* class attribute weights_values
weights_values == {"frameduration", "none", "frameduration_activity",
                   "frameduration_activity_decay", "trues"}

\* SRTM_Zhou2003.result_names
result_names == <<"BP", "DVR", "R1", "k2", "k2a", "R1_lrsc", "k2_lrsc",
                  "k2a_lrsc", "noiseVar_eqDVR", "noiseVar_eqR1">>

ResultNames == {result_names[i] : i \in 1..Len(result_names)}

\* len() of a weights argument that is a string
StrLen(name) ==
    CASE name = "dt" -> 2
      [] name = "xyz" -> 3
      [] name = "bogus" -> 5
      [] name = "none" -> 4
      [] OTHER -> 13

RECURSIVE Pow2(_)
Pow2(k) == IF k <= 0 THEN 1 ELSE 2 * Pow2(k - 1)

\* np.exp(decayConstant * t) with decayConstant = np.log(2) / halflife, which
\* is 2^(t/halflife); the inputs keep t/halflife a natural number
expDecay(halflife, tt) == R(Pow2(FDiv(tt, halflife)[1]))

\* lines 131-161: the weights before normalisation, as [raised, w]
rawWeights(a, TAC2) ==
    LET n == Len(a.t)
        rows == Len(TAC2)
        w == a.weights
        ok(W) == [raised |-> "none", w |-> Tup([k \in 1..Len(W) |-> Tup(W[k])])]
        fail(e) == [raised |-> e, w |-> <<>>]
    IN
    IF w.name = "none" THEN
        ok([k \in 1..rows |-> [j \in 1..n |-> One]])
    ELSE IF w.name = "frameduration" THEN
        ok(tile(Vec(a.dt), rows))
    ELSE IF w.name = "frameduration_activity" THEN
        ok([k \in 1..rows |-> [j \in 1..n |-> FDiv(a.dt[j], TAC2[k][j])]])
    ELSE IF w.name = "frameduration_activity_decay" THEN
        IF a.halflife = NaN THEN fail("ValueError")
        ELSE ok([k \in 1..rows |-> [j \in 1..n |->
                    FDiv(a.dt[j], FMul(TAC2[k][j], expDecay(a.halflife, a.t[j])))]])
    ELSE IF w.name = "trues" THEN
        IF a.halflife = NaN THEN fail("ValueError")
        ELSE IF a.Trues.ndim = 0 THEN fail("ValueError")
        ELSE IF a.Trues.ndim = 1 THEN
            \* dt^2 / (Trues * ...) stays 1-D: np.sum(..., axis=1) raises
            \* numpy.AxisError (a subclass of ValueError and IndexError)
            fail("AxisError")
        ELSE ok([k \in 1..Len(a.Trues.v) |-> [j \in 1..n |->
                    FDiv(FMul(a.dt[j], a.dt[j]),
                         FMul(a.Trues.v[k][j],
                              FMul(expDecay(a.halflife, a.t[j]),
                                   expDecay(a.halflife, a.t[j]))))]])
    ELSE IF w.ndim = 0 THEN
        \* any other string: np.tile of it gives an array of strings and
        \* `self.weights<0` raises TypeError; a string has no .shape
        IF StrLen(w.name) = n THEN fail("TypeError") ELSE fail("AttributeError")
    ELSE IF len(w) = n THEN
        ok(tile(w, rows))
    ELSE IF shape(w) = <<rows, n>> THEN
        ok(w.v)
    ELSE fail("ValueError")

\* lines 163-170: negative weights replaced by absolute values (all of them,
\* once any is negative), then every row divided by its sum
normalizeWeights(W) ==
    LET anyNeg == \E k \in 1..Len(W) : \E j \in 1..Len(W[k]) : FLess(W[k][j], Zero)
        A == IF anyNeg
             THEN Tup([k \in 1..Len(W) |-> Tup([j \in 1..Len(W[k]) |-> FAbs(W[k][j])])])
             ELSE W
        sum == Tup([k \in 1..Len(A) |-> FSum(Tup(A[k]))])
    IN  Tup([k \in 1..Len(A) |-> Tup([j \in 1..Len(A[k]) |-> FDiv(A[k][j], sum[k])])])

\* a variant of emptyResults that fills the arrays with 0, as np.zeros would;
\* C4_FitFillsSevenResults tells the two apart
emptyResultsZeroed(rows) == [name \in ResultNames |-> Tup([k \in 1..rows |-> Zero])]

\* lines 172-176: one NaN-filled array per declared result name
emptyResults(rows) == [name \in ResultNames |-> Tup([k \in 1..rows |-> NaN])]

\* TAC_rownames: None, or a list of names
NoNames == [given |-> FALSE, names |-> <<>>]
Names(l) == [given |-> TRUE, names |-> l]

NoModel == [t |-> <<>>, dt |-> <<>>, TAC |-> <<>>, refTAC |-> <<>>,
            startActivity |-> "", TAC_rownames |-> NoNames, halflife |-> NaN,
            weights |-> <<>>, results |-> [name \in ResultNames |-> <<>>]]

\* lines 75-121: the exception the input checks raise, "none" if they pass
inputChecks(a) ==
    IF ~a.oneD THEN "ValueError"
    ELSE IF ~(Len(a.t) = Len(a.dt) /\ Len(a.dt) = Len(a.refTAC)) THEN "ValueError"
    ELSE IF ~a.timeUnits THEN "ValueError"
    ELSE IF a.TAC.ndim = 1 /\ len(a.TAC) # Len(a.t) THEN "ValueError"
    ELSE IF a.TAC.ndim = 2 /\ shape(a.TAC)[2] # Len(a.t) THEN "ValueError"
    ELSE IF a.TAC.ndim \notin {1, 2} THEN "ValueError"
    ELSE IF \E k \in 1..Len(tile(a.TAC, 1)) : ~AllFinite(tile(a.TAC, 1)[k])
         THEN "ValueError"
    \* line 99 calls length(), a name defined nowhere
    ELSE IF a.TAC_rownames.given THEN "NameError"
    ELSE IF ~FLeq(Zero, a.t[1]) THEN "ValueError"
    ELSE IF ~strictly_increasing(a.t) THEN "ValueError"
    ELSE IF \E j \in 1..Len(a.dt) : ~FLess(Zero, a.dt[j]) THEN "ValueError"
    ELSE IF a.halflife # NaN /\ FLeq(a.halflife, Zero) THEN "ValueError"
    ELSE IF a.startActivity \notin startActivity_values THEN "ValueError"
    ELSE "none"

\* KineticModel.__init__(t, dt, TAC, refTAC, startActivity, weights,
\* halflife, Trues, TAC_rownames) as [raised, self]
KineticModel_init(a) ==
    LET e == inputChecks(a)
        TAC2 == tile(a.TAC, 1)
        rw == rawWeights(a, TAC2)
    IN
    IF e # "none" THEN [raised |-> e, self |-> NoModel]
    ELSE IF rw.raised # "none" THEN [raised |-> rw.raised, self |-> NoModel]
    ELSE [raised |-> "none",
          self |-> [t |-> a.t, dt |-> a.dt, TAC |-> TAC2, refTAC |-> a.refTAC,
                    startActivity |-> a.startActivity,
                    TAC_rownames |-> a.TAC_rownames,
                    halflife |-> a.halflife,
                    weights |-> normalizeWeights(rw.w),
                    results |-> emptyResults(Len(TAC2))]]

----------------------------------------------------------------------------
(* srtm.py: SRTM_Zhou2003.fit                                              *)

\* m = 3: the number of regression coefficients
m == 3

\* the least common multiple of the denominators of a sequence of finite numbers
RECURSIVE LCMden(_)
LCMden(s) ==
    IF s = <<>> THEN 1
    ELSE LET l == LCMden(Tail(s)) IN (l \div GCD(l, s[1][2])) * s[1][2]

\* the determinant of a 3 x 3 matrix of integers
Det3(A) ==
    A[1][1] * (A[2][2] * A[3][3] - A[2][3] * A[3][2])
    - A[1][2] * (A[2][1] * A[3][3] - A[2][3] * A[3][1])
    + A[1][3] * (A[2][1] * A[3][2] - A[2][2] * A[3][1])

\* Cramer's rule on L*A and Lb*b, which are integer for L, Lb the common
\* denominators of A and of b: x[c] = (det_c / det) * (L / Lb); not ok when
\* the determinant is 0
cramer(A, b, L, Lb) ==
    LET Ai == Tup([i \in 1..3 |->
                  Tup([j \in 1..3 |-> A[i][j][1] * (L \div A[i][j][2])])])
        bi == Tup([i \in 1..3 |-> b[i][1] * (Lb \div b[i][2])])
        d == Det3(Ai)
        col(c) == Tup([i \in 1..3 |->
                       Tup([j \in 1..3 |-> IF j = c THEN bi[i] ELSE Ai[i][j]])])
    IN  IF d = 0 THEN [ok |-> FALSE, x |-> <<>>]
        ELSE [ok |-> TRUE,
              x |-> Tup([c \in 1..3 |->
                           FMul(Norm(Det3(col(c)), d), Norm(L, Lb))])]

\* scipy.linalg.solve(A, b) for a 3 x 3 system, as [ok, x].  It raises
\* ValueError when A or b holds inf or NaN (check_finite) and LinAlgError
\* when A is singular; otherwise it returns the solution, here the exact one
solve(A, b) ==
    IF ~(\A i \in 1..3 : AllFinite(A[i]) /\ IsFinite(b[i]))
    THEN [ok |-> FALSE, x |-> <<>>]
    ELSE cramer(A, b, LCMden(A[1] \o A[2] \o A[3]), LCMden(b))

\* a * b * c
FMul3(a, b, c) ==
    IF IsFinite(a) /\ IsFinite(b) /\ IsFinite(c)
    THEN Norm(a[1] * b[1] * c[1], a[2] * b[2] * c[2])
    ELSE FMul(FMul(a, b), c)

\* X.T @ W @ X and X.T @ W @ y, W = diag(w)
XtWX(X, w) ==
    LET e(i, j) == FSum(Tup([k \in 1..Len(X) |-> FMul3(X[k][i], w[k], X[k][j])]))
        U == Tup([i \in 1..3 |-> Tup([j \in 1..3 |-> IF i <= j THEN e(i, j) ELSE NaN])])
    IN  \* the product is symmetric: the entries below the diagonal are
        \* those above it
        Tup([i \in 1..3 |-> Tup([j \in 1..3 |-> IF i <= j THEN U[i][j] ELSE U[j][i]])])

XtWy(X, w, y) ==
    Tup([i \in 1..3 |->
        FSum(Tup([k \in 1..Len(X) |-> FMul3(X[k][i], w[k], y[k])]))])

\* residual = y - X @ b;  residual.T @ W @ residual / (n-m)
noiseVar(X, w, y, b) ==
    LET residual == Tup([k \in 1..Len(X) |->
                        FSub(y[k], FSum(Tup([j \in 1..3 |-> FMul(X[k][j], b[j])])))])
    IN  FDiv(FSum(Tup([k \in 1..Len(X) |->
                          FMul3(residual[k], w[k], residual[k])])),
             R(Len(X) - m))

\* the rows of smoothTAC after line 52 made a 1-D smoothTAC a row vector
smoothRows(smoothTAC) == tile(smoothTAC, 1)

\* -v
negated(v) == Tup([i \in 1..Len(v) |-> FNeg(v[i])])

\* np.column_stack((a, b, c)): the rows <<a[i], b[i], c[i]>>
column_stack(a, b, c) == Tup([i \in 1..Len(a) |-> <<a[i], b[i], c[i]>>])

\* what a try block leaves of the solution s of the regression of y on X with
\* weights w: the coefficients and the noise variance
regressed(X, w, y, s) ==
    IF s.ok THEN [ok |-> TRUE, b |-> s.x, noiseVar |-> noiseVar(X, w, y, s.x)]
    ELSE [ok |-> FALSE, b |-> <<>>, noiseVar |-> Zero]

\* a try block (lines 84-87, 104-107): b = solve(X.T @ W @ X, X.T @ W @ y)
\* and the noise variance, as [ok, b, noiseVar].  X.T @ W raises ValueError
\* when the row of weights has another length than t
regress(X, w, y) ==
    regressed(X, w, y, IF Len(w) # Len(X) THEN [ok |-> FALSE, x |-> <<>>]
                       ELSE solve(XtWX(X, w), XtWy(X, w, y)))

\* lines 89-94: the outputs of the DVR equation, 0 when the try block raised
outputsDVR(f) ==
    IF f.ok
    THEN [DVR |-> f.b[1], BP |-> FSub(f.b[1], One),
          noiseVar_eqDVR |-> f.noiseVar, solved |-> TRUE]
    ELSE [DVR |-> Zero, BP |-> Zero, noiseVar_eqDVR |-> Zero, solved |-> FALSE]

\* lines 63-94: the DVR equation of row k.  The design matrix holds the
\* integrated reference TAC, the reference TAC and minus the TAC, or minus
\* row k of smoothTAC when one is given; the target is the integrated TAC
eqDVR(mdl, k, smoothTAC) ==
    outputsDVR(regress(
        column_stack(integrate(mdl.refTAC, mdl.t, mdl.startActivity),
                     mdl.refTAC,
                     negated(IF smoothTAC.ndim = 0 THEN mdl.TAC[k]
                             ELSE smoothRows(smoothTAC)[k])),
        mdl.weights[k],
        integrate(mdl.TAC[k], mdl.t, mdl.startActivity)))

\* lines 109-113: the outputs of the R1 equation, 0 when the try block raised
outputsR1(f) ==
    IF f.ok
    THEN [R1 |-> f.b[1], k2 |-> f.b[2], k2a |-> f.b[3],
          noiseVar_eqR1 |-> f.noiseVar, solved |-> TRUE]
    ELSE [R1 |-> Zero, k2 |-> Zero, k2a |-> Zero, noiseVar_eqR1 |-> Zero,
          solved |-> FALSE]

\* lines 63-70, 96-113: the R1 equation of row k.  The design matrix holds
\* the reference TAC, the integrated reference TAC and minus the integrated
\* TAC; the target is the TAC
eqR1(mdl, k) ==
    outputsR1(regress(
        column_stack(mdl.refTAC,
                     integrate(mdl.refTAC, mdl.t, mdl.startActivity),
                     negated(integrate(mdl.TAC[k], mdl.t, mdl.startActivity))),
        mdl.weights[k],
        mdl.TAC[k]))

\* lines 47-57: the exception the check of smoothTAC raises, "none" if it passes
smoothTACcheck(mdl, smoothTAC) ==
    IF smoothTAC.ndim = 0 THEN "none"
    ELSE IF smoothTAC.ndim = 1 THEN
        (IF len(smoothTAC) # Len(mdl.t) THEN "ValueError" ELSE "none")
    ELSE IF smoothTAC.ndim = 2 THEN
        (IF shape(smoothTAC) # <<Len(mdl.TAC), Len(mdl.t)>> THEN "ValueError" ELSE "none")
    ELSE "ValueError"

\* lines 115-122: the seven values stored for a row, from the outputs of its
\* two equations
rowResults(d, r) ==
    [BP |-> d.BP, DVR |-> d.DVR, R1 |-> r.R1, k2 |-> r.k2, k2a |-> r.k2a,
     noiseVar_eqDVR |-> d.noiseVar_eqDVR, noiseVar_eqR1 |-> r.noiseVar_eqR1]

\* a variant of fitRow that stores the DVR coefficient as BP, without the
\* subtraction of line 92; C10_BPFollowsDVRWhenSolved tells the two apart
fitRowUnshifted(mdl, k, smoothTAC) ==
    [rowResults(eqDVR(mdl, k, smoothTAC), eqR1(mdl, k)) EXCEPT
        !.BP = eqDVR(mdl, k, smoothTAC).DVR]

\* a variant of fitRow whose R1 equation regresses row k of smoothTAC, when
\* one is given, instead of the TAC; C18_SmoothTACOnlyInDVR tells the two apart
fitRowSmoothedR1(mdl, k, smoothTAC) ==
    rowResults(eqDVR(mdl, k, smoothTAC),
               outputsR1(regress(
                   column_stack(mdl.refTAC,
                                integrate(mdl.refTAC, mdl.t, mdl.startActivity),
                                negated(integrate(mdl.TAC[k], mdl.t,
                                                  mdl.startActivity))),
                   mdl.weights[k],
                   IF smoothTAC.ndim = 0 THEN mdl.TAC[k]
                   ELSE smoothRows(smoothTAC)[k])))

\* lines 66-122, one turn of the loop: what row k's seven results become
fitRow(mdl, k, smoothTAC) == rowResults(eqDVR(mdl, k, smoothTAC), eqR1(mdl, k))

\* the number of rows the loop completes: self.weights[k,:] (line 67) and
\* smoothTAC[k,:] (line 80) raise IndexError, outside the try blocks, at the
\* first row the weights or smoothTAC do not have
fitRowsWritten(mdl, smoothTAC) ==
    LET have == {Len(mdl.TAC), Len(mdl.weights)}
                \cup (IF smoothTAC.ndim = 0 THEN {} ELSE {Len(smoothRows(smoothTAC))})
    IN  CHOOSE r \in have : \A q \in have : r <= q

\* a variant of storeRows that keeps the completed rows only, shortening
\* the array when the loop stopped early; C16_OnlyResultValuesChange tells the
\* two apart
storeRowsCompleted(old, name, new) == Tup([k \in 1..Len(new) |-> new[k][name]])

\* self.results[name][k] = ... for the rows the loop completed
storeRows(old, name, new) ==
    Tup([k \in 1..Len(old) |-> IF k <= Len(new) THEN new[k][name] ELSE old[k]])

\* lines 66-124: the loop that completed the rows in new, as
\* [raised, results, rows]
fitLoop(mdl, new) ==
    [raised |-> IF Len(new) < Len(mdl.TAC) THEN "IndexError" ELSE "none",
     results |-> [mdl.results EXCEPT
                     !.BP = storeRows(@, "BP", new),
                     !.DVR = storeRows(@, "DVR", new),
                     !.R1 = storeRows(@, "R1", new),
                     !.k2 = storeRows(@, "k2", new),
                     !.k2a = storeRows(@, "k2a", new),
                     !.noiseVar_eqDVR = storeRows(@, "noiseVar_eqDVR", new),
                     !.noiseVar_eqR1 = storeRows(@, "noiseVar_eqR1", new)],
     rows |-> Len(new)]

\* SRTM_Zhou2003.fit(smoothTAC) as [raised, results, rows]
fit(mdl, smoothTAC) ==
    IF smoothTACcheck(mdl, smoothTAC) # "none"
    THEN [raised |-> smoothTACcheck(mdl, smoothTAC), results |-> mdl.results,
          rows |-> 0]
    ELSE fitLoop(mdl, Tup([k \in 1..fitRowsWritten(mdl, smoothTAC) |->
                             fitRow(mdl, k, smoothTAC)]))

----------------------------------------------------------------------------
(* srtm.py: SRTM_Zhou2003.refine_R1                                        *)

\* the arguments of refine_R1: three arrays of smoothed parameters and h
NoRefineArgs == [smoothR1 |-> NoArray, smoothk2 |-> NoArray,
                 smoothk2a |-> NoArray, h |-> NoArray]

\* a variant of refineChecks without the comparison of the lengths with the
\* number of rows (line 140); C12_BadRefineArgsRejected tells the two apart
refineChecksNoLength(mdl, a) ==
    IF ~(a.smoothR1.ndim = a.smoothk2.ndim /\ a.smoothk2.ndim = a.smoothk2a.ndim
         /\ a.smoothk2a.ndim = 1) THEN "ValueError"
    ELSE IF a.h.ndim # 2 THEN "ValueError"
    ELSE IF shape(a.h) # <<Len(mdl.TAC), 3>> THEN "ValueError"
    ELSE "none"

\* lines 138-147: the exception the checks of refine_R1 raise, "none" if they
\* pass
refineChecks(mdl, a) ==
    IF ~(a.smoothR1.ndim = a.smoothk2.ndim /\ a.smoothk2.ndim = a.smoothk2a.ndim
         /\ a.smoothk2a.ndim = 1) THEN "ValueError"
    ELSE IF ~(len(a.smoothR1) = len(a.smoothk2) /\ len(a.smoothk2) = len(a.smoothk2a)
              /\ len(a.smoothk2a) = Len(mdl.TAC)) THEN "ValueError"
    ELSE IF a.h.ndim # 2 THEN "ValueError"
    ELSE IF shape(a.h) # <<Len(mdl.TAC), 3>> THEN "ValueError"
    ELSE "none"

\* A + H, H = mat.diag(h)
plusDiag(A, h) ==
    Tup([i \in 1..3 |->
        Tup([j \in 1..3 |-> FAdd(A[i][j], IF i = j THEN h[i] ELSE Zero)])])

\* a variant of plusDiagTimes that adds h[i] * b_sc[i] only where h[i] is not
\* 0, so that a missing b_sc is ignored under a zero h;
\* C11_ZeroHReducesWhenFinite tells the two apart
plusDiagTimesSkippingZeros(v, h, b_sc) ==
    Tup([i \in 1..3 |->
        IF h[i] = Zero THEN v[i] ELSE FAdd(v[i], FMul(h[i], b_sc[i]))])

\* v + H @ b_sc, H = mat.diag(h): the product sums h[i] * b_sc[i] and the
\* products of the zeros off the diagonal with the other entries of b_sc
plusDiagTimes(v, h, b_sc) ==
    Tup([i \in 1..3 |->
        FAdd(v[i], FSum(Tup([j \in 1..3 |->
                               FMul(IF i = j THEN h[i] ELSE Zero, b_sc[j])])))])

\* line 168 in its try block: solve(X.T @ W @ X + H, X.T @ W @ y + H @ b_sc)
\* as [ok, x]
ridge(X, w, y, h, b_sc) ==
    IF Len(w) # Len(X) THEN [ok |-> FALSE, x |-> <<>>]
    ELSE solve(plusDiag(XtWX(X, w), h), plusDiagTimes(XtWy(X, w, y), h, b_sc))

\* lines 170-174: the outputs of the ridge regression, 0 when the try block
\* raised
outputsLrsc(s) ==
    IF s.ok
    THEN [R1_lrsc |-> s.x[1], k2_lrsc |-> s.x[2], k2a_lrsc |-> s.x[3],
          solved |-> TRUE]
    ELSE [R1_lrsc |-> Zero, k2_lrsc |-> Zero, k2a_lrsc |-> Zero,
          solved |-> FALSE]

\* lines 150-174, one turn of the loop: the ridge regression of row k
refineRow(mdl, k, a) ==
    outputsLrsc(ridge(
        column_stack(mdl.refTAC,
                     integrate(mdl.refTAC, mdl.t, mdl.startActivity),
                     negated(integrate(mdl.TAC[k], mdl.t, mdl.startActivity))),
        mdl.weights[k],
        mdl.TAC[k],
        a.h.v[k],
        <<a.smoothR1.v[k], a.smoothk2.v[k], a.smoothk2a.v[k]>>))

\* the number of rows the loop completes: self.weights[k,:] (line 152)
\* raises IndexError, outside the try block, at the first row the weights do
\* not have
refineRowsWritten(mdl) ==
    IF Len(mdl.weights) < Len(mdl.TAC) THEN Len(mdl.weights) ELSE Len(mdl.TAC)

\* a variant of refineLoop that stores the refined values under R1, k2 and
\* k2a as well; C13_LrscOnlyByRefine tells the two apart
refineLoopOverwriting(mdl, new) ==
    [raised |-> IF Len(new) < Len(mdl.TAC) THEN "IndexError" ELSE "none",
     results |-> [mdl.results EXCEPT
                     !.R1_lrsc = storeRows(@, "R1_lrsc", new),
                     !.k2_lrsc = storeRows(@, "k2_lrsc", new),
                     !.k2a_lrsc = storeRows(@, "k2a_lrsc", new),
                     !.R1 = storeRows(@, "R1_lrsc", new),
                     !.k2 = storeRows(@, "k2_lrsc", new),
                     !.k2a = storeRows(@, "k2a_lrsc", new)],
     rows |-> Len(new)]

\* lines 151-180: the loop that completed the rows in new, as
\* [raised, results, rows]
refineLoop(mdl, new) ==
    [raised |-> IF Len(new) < Len(mdl.TAC) THEN "IndexError" ELSE "none",
     results |-> [mdl.results EXCEPT
                     !.R1_lrsc = storeRows(@, "R1_lrsc", new),
                     !.k2_lrsc = storeRows(@, "k2_lrsc", new),
                     !.k2a_lrsc = storeRows(@, "k2a_lrsc", new)],
     rows |-> Len(new)]

\* SRTM_Zhou2003.refine_R1(smoothR1, smoothk2, smoothk2a, h) as
\* [raised, results, rows]
refine_R1(mdl, a) ==
    IF refineChecks(mdl, a) # "none"
    THEN [raised |-> refineChecks(mdl, a), results |-> mdl.results, rows |-> 0]
    ELSE refineLoop(mdl, Tup([k \in 1..refineRowsWritten(mdl) |->
                                refineRow(mdl, k, a)]))

----------------------------------------------------------------------------
(* srtm.py: SRTM_Gunn1997.fit                                              *)

\* SRTM_Gunn1997.result_names (and those of SRTM_Lammertsma1996)
GunnNames == {"BP", "R1", "k2"}

\* lines 172-176 for a class that declares the result names of names
withResults(made, names) ==
    IF made.raised # "none" THEN made
    ELSE [made EXCEPT !.self.results =
              [name \in names |-> Tup([k \in 1..Len(made.self.TAC) |-> NaN])]]

\* SRTM_Gunn1997(t, dt, TAC, refTAC, ...) as [raised, self]
Gunn1997_init(a) == withResults(KineticModel_init(a), GunnNames)

\* np.exp(x), by its Pade approximant (2 + x) / (2 - x), exact in rationals;
\* the arguments are below 2
exp(x) == FDiv(FAdd(Two, x), FSub(Two, x))

\* np.exp(theta3 * t)
expTimes(theta3, t) == Tup([i \in 1..Len(t) |-> exp(FMul(theta3, t[i]))])

\* a * b and a / b, entry by entry
times(a, b) == Tup([i \in 1..Len(a) |-> FMul(a[i], b[i])])
over(a, b) == Tup([i \in 1..Len(a) |-> FDiv(a[i], b[i])])

\* lines 290-292 and 307-309: the convolution of the reference TAC with
\* exp(-theta3 t), given e = exp(theta3 * t)
convolution(mdl, e) ==
    over(integrate(times(mdl.refTAC, e), mdl.t, mdl.startActivity), e)

\* np.column_stack((a, b)): the rows <<a[i], b[i]>>
column_stack2(a, b) == Tup([i \in 1..Len(a) |-> <<a[i], b[i]>>])

\* X.T @ W @ X and X.T @ W @ y for the two columns of X
XtWX2(X, w) ==
    Tup([i \in 1..2 |-> Tup([j \in 1..2 |->
        FSum(Tup([k \in 1..Len(X) |-> FMul(FMul(X[k][i], w[k]), X[k][j])]))])])

XtWy2(X, w, y) ==
    Tup([i \in 1..2 |->
        FSum(Tup([k \in 1..Len(X) |-> FMul(FMul(X[k][i], w[k]), y[k])]))])

\* the determinant a * d - b * c
Det2(a, b, c, d) == FSub(FMul(a, d), FMul(b, c))

\* the solution of the 2 x 2 system A x = b by Cramer's rule, given the
\* determinant det of A
cramer2(A, b, det) ==
    IF det = Zero THEN [raised |-> "LinAlgError", x |-> <<>>]
    ELSE [raised |-> "none",
          x |-> <<FDiv(Det2(b[1], A[1][2], b[2], A[2][2]), det),
                  FDiv(Det2(A[1][1], b[1], A[2][1], b[2]), det)>>]

\* scipy.linalg.solve(A, b) for a 2 x 2 system, as [raised, x]: ValueError
\* when A or b holds inf or NaN, LinAlgError when A is singular
solve2(A, b) ==
    IF ~(\A i \in 1..2 : AllFinite(A[i]) /\ IsFinite(b[i]))
    THEN [raised |-> "ValueError", x |-> <<>>]
    ELSE cramer2(A, b, Det2(A[1][1], A[1][2], A[2][1], A[2][2]))

\* one entry of residual = y - X @ thetas
residualAt(x, y, thetas) ==
    FSub(y, FAdd(FMul(x[1], thetas[1]), FMul(x[2], thetas[2])))

\* r * w * r
weightedSquare(r, w) == FMul(FMul(r, w), r)

\* rss = residual.T @ W @ residual
rss(X, w, y, thetas) ==
    FSum(Tup([k \in 1..Len(X) |-> weightedSquare(residualAt(X[k], y[k], thetas), w[k])]))

\* what the regression leaves of the solution s, as [raised, thetas, rss]
profiled(X, w, y, s) ==
    IF s.raised # "none" THEN [raised |-> s.raised, thetas |-> <<>>, rss |-> NaN]
    ELSE [raised |-> "none", thetas |-> s.x, rss |-> rss(X, w, y, s.x)]

\* solve(X.T @ W @ X, X.T @ W @ y) and the residual sum of squares, as
\* [raised, thetas, rss]
profileOn(X, w, y) == profiled(X, w, y, solve2(XtWX2(X, w), XtWy2(X, w, y)))

\* lines 289-301 (energy_fun) and 307-313: the regression of row k on the
\* reference TAC and its convolution at theta3, as [raised, thetas, rss].
\* X.T @ W raises ValueError when the row of weights has another length
\* than t
profile(mdl, k, theta3) ==
    IF Len(mdl.weights[k]) # Len(mdl.t)
    THEN [raised |-> "ValueError", thetas |-> <<>>, rss |-> NaN]
    ELSE profileOn(column_stack2(mdl.refTAC,
                                 convolution(mdl, expTimes(theta3, mdl.t))),
                   mdl.weights[k], mdl.TAC[k])

\* the points of the interval (0.06, 0.6) at which the bounded search of
\* minimize_scalar evaluates energy_fun, in order
Probes == <<Norm(2, 5), Norm(1, 2)>>

\* a <= b, by the sign of a - b when both are finite
noGreater(a, b) ==
    IF IsFinite(a) /\ IsFinite(b) THEN FSub(a, b)[1] <= 0 ELSE FLeq(a, b)

\* lines 303-305: res = minimize_scalar(energy_fun, bounds=(0.06, 0.6),
\* method='bounded') as [raised, x], given the values at the probes: an
\* exception of energy_fun ends the search; res.x is the first of the probes
\* with the least value
searched(at) ==
    IF \E i \in 1..Len(at) : at[i].raised # "none"
    THEN [raised |-> at[CHOOSE i \in 1..Len(at) :
                          /\ at[i].raised # "none"
                          /\ \A j \in 1..(i - 1) : at[j].raised = "none"].raised,
          x |-> NaN]
    ELSE [raised |-> "none",
          x |-> Probes[CHOOSE i \in 1..Len(at) :
                          /\ \A j \in 1..Len(at) : noGreater(at[i].rss, at[j].rss)
                          /\ \A j \in 1..(i - 1) : ~noGreater(at[j].rss, at[i].rss)]]

minimize_scalar(mdl, k) ==
    searched(Tup([i \in 1..Len(Probes) |-> profile(mdl, k, Probes[i])]))

\* lines 315-317: R1 = thetas[0], k2 = thetas[1] + R1 * theta3,
\* BP = k2 / theta3 - 1
outputsGunn(f, theta3) ==
    [raised |-> "none",
     R1 |-> f.thetas[1],
     k2 |-> FAdd(f.thetas[2], FMul(f.thetas[1], theta3)),
     BP |-> FSub(FDiv(FAdd(f.thetas[2], FMul(f.thetas[1], theta3)), theta3), One)]

\* lines 303-317 after the search returned res
afterSearch(mdl, k, res) ==
    IF res.raised # "none" THEN [raised |-> res.raised]
    ELSE outputsGunn(profile(mdl, k, res.x), res.x)

\* a variant of gunnRow that stores 0 for a row whose solve is singular and
\* goes on, as SRTM_Zhou2003.fit does; C14_SingularSolvePropagates tells the
\* two apart
gunnRowDegrading(mdl, k) ==
    IF k > Len(mdl.weights) THEN [raised |-> "IndexError"]
    ELSE IF minimize_scalar(mdl, k).raised = "LinAlgError"
    THEN [raised |-> "none", R1 |-> Zero, k2 |-> Zero, BP |-> Zero]
    ELSE afterSearch(mdl, k, minimize_scalar(mdl, k))

\* lines 285-321, one turn of the loop, as [raised] or [raised, R1, k2, BP]:
\* self.weights[k,:] raises IndexError at a row the weights do not have
gunnRow(mdl, k) ==
    IF k > Len(mdl.weights) THEN [raised |-> "IndexError"]
    ELSE afterSearch(mdl, k, minimize_scalar(mdl, k))

RECURSIVE gunnRows(_, _)
\* the outcome of row k and, unless it raised, those of the rows after it
gunnRowsFrom(mdl, k, outcome) ==
    IF outcome.raised # "none" THEN <<outcome>>
    ELSE <<outcome>> \o gunnRows(mdl, k + 1)

\* the outcomes of the rows from k on, up to the first that raises
gunnRows(mdl, k) ==
    IF k > Len(mdl.TAC) THEN <<>>
    ELSE gunnRowsFrom(mdl, k, gunnRow(mdl, k))

\* lines 284-323: the loop over the rows in outcomes (the last of them may
\* have raised), as [raised, results, rows]
gunnLoop(mdl, outcomes) ==
    [raised |-> IF outcomes = <<>> THEN "none" ELSE outcomes[Len(outcomes)].raised,
     results |-> [name \in GunnNames |->
                     Tup([k \in 1..Len(mdl.TAC) |->
                            IF k <= Len(outcomes) /\ outcomes[k].raised = "none"
                            THEN outcomes[k][name]
                            ELSE mdl.results[name][k]])],
     rows |-> Cardinality({k \in 1..Len(outcomes) : outcomes[k].raised = "none"})]

\* SRTM_Gunn1997.fit() as [raised, results, rows]
Gunn1997_fit(mdl) == gunnLoop(mdl, gunnRows(mdl, 1))

----------------------------------------------------------------------------
(* srtm.py: SRTM_Lammertsma1996.fit                                        *)

\* SRTM_Lammertsma1996.result_names
LammertsmaNames == {"BP", "R1", "k2"}

\* SRTM_Lammertsma1996(t, dt, TAC, refTAC, ...) as [raised, self]
Lammertsma1996_init(a) == withResults(KineticModel_init(a), LammertsmaNames)

\* res.x of basinhopping(energy_fun, x0, minimizer_kwargs): a point
\* (BP, R1, k2) of the box [0, 20] x [0, 10] x [0, 2] of line 248.  Which
\* one depends on energy_fun and, through the random steps, on the state of
\* numpy's global random generator: any of the starting point x0 of line 261
\* and the upper corner of the box
Found == {[BP |-> One, R1 |-> One, k2 |-> Norm(1, 10)],
          [BP |-> R(20), R1 |-> R(10), k2 |-> Two]}

\* the number of rows the loop completes: self.weights[k,:] (line 253)
\* raises IndexError at the first row the weights do not have
lammertsmaRowsWritten(mdl) ==
    IF Len(mdl.weights) < Len(mdl.TAC) THEN Len(mdl.weights) ELSE Len(mdl.TAC)

\* SRTM_Lammertsma1996.fit() as [raised, results, rows], given the res.x the
\* optimizer finds for each row
Lammertsma1996_fit(mdl, found) ==
    [raised |-> IF lammertsmaRowsWritten(mdl) < Len(mdl.TAC) THEN "IndexError"
                ELSE "none",
     results |-> [name \in LammertsmaNames |->
                     Tup([k \in 1..Len(mdl.TAC) |->
                            IF k <= lammertsmaRowsWritten(mdl) THEN found[k][name]
                            ELSE mdl.results[name][k]])],
     rows |-> lammertsmaRowsWritten(mdl)]

----------------------------------------------------------------------------
(* Inputs.  Activities and weights are small integers, times are whole      *)
(* minutes.                                                                *)

\* the largest number of frames of a model that is fitted
MaxFrames == 4
\* the largest number of frames of a call that exercises the input checks
MaxCheck == 2
\* the largest number of samples of a curve handed to integrate()
MaxLen == 3
\* the largest value of a curve handed to integrate()
MaxCurve == 2
\* the largest time handed to integrate()
MaxTime == 3

\* the TACs of n frames of constructed models: activity 1 on a run of
\* consecutive frames and 0 on the others (the all-zero TAC included)
Boluses(n) ==
    {Tup([i \in 1..n |-> IF a <= i /\ i < b THEN One ELSE Zero]) :
        a \in 1..n, b \in 1..(n + 1)}

Vals(lo, hi) == {R(v) : v \in lo..hi}
Ones(n) == Tup([i \in 1..n |-> One])
Ramp(n) == Tup([i \in 1..n |-> R(i)])

----------------------------------------------------------------------------
(* Specification SpecIntegrate: one call of integrate() on drawn arguments *)

NoCall == [TAC |-> <<>>, t |-> <<>>, startActivity |-> ""]

IntegrateCalls ==
    [TAC : UNION {SeqsOf(Vals(0, MaxCurve), n) : n \in 1..MaxLen},
     t : UNION {SeqsOf(Vals(0, MaxTime), n) : n \in 1..MaxLen},
     startActivity : startActivity_values \cup {"linear"}]

NoArgs == [t |-> <<>>, dt |-> <<>>, TAC |-> NoArray, refTAC |-> <<>>,
           startActivity |-> "", weights |-> [name |-> "", ndim |-> 0, v |-> <<>>],
           halflife |-> NaN, Trues |-> NoArray, TAC_rownames |-> NoNames,
           oneD |-> TRUE, timeUnits |-> TRUE]

InitIntegrate ==
    /\ call \in IntegrateCalls
    /\ returned = <<>>
    /\ raised = "none"
    /\ ctor = NoArgs
    /\ cls = ""
    /\ self = NoModel
    /\ fitArg = NoArray
    /\ refineArg = NoRefineArgs
    /\ rowsDone = 0
    /\ op = ""

Integrate ==
    /\ op = ""
    /\ call # NoCall
    /\ op' = "integrate"
    /\ raised' = integrateRaises(call.TAC, call.t, call.startActivity)
    /\ returned' = IF raised' = "none"
                   THEN integrate(call.TAC, call.t, call.startActivity)
                   ELSE <<>>
    /\ UNCHANGED <<call, ctor, cls, self, fitArg, refineArg, rowsDone>>

SpecIntegrate == InitIntegrate /\ [][Integrate]_vars

----------------------------------------------------------------------------
(* Specification Spec: a model is constructed once, then fitted            *)

Policy(name) == [name |-> name, ndim |-> 0, v |-> <<>>]
Custom(a) == [name |-> "array", ndim |-> a.ndim, v |-> a.v]

\* 2, 1, 2, 1, ...: the reference TAC and the frame durations of the calls
Alt(n) == Tup([i \in 1..n |-> R(1 + (i % 2))])

GoodArgs(n) ==
    [t |-> Ramp(n), dt |-> Alt(n), TAC |-> Vec(Ones(n)), refTAC |-> Alt(n),
     startActivity |-> "flat", weights |-> Policy("none"),
     halflife |-> NaN, Trues |-> NoArray, TAC_rownames |-> NoNames,
     oneD |-> TRUE, timeUnits |-> TRUE]

\* the three-frame scenario: t = [0.5, 1.5, 2.5] min, dt = [1, 1, 1] min,
\* refTAC = [1.0, 1.2, 1.0], TAC = [0.0, 0.5, 0.8], 'flat', weights 'none'
Scenario ==
    [GoodArgs(m) EXCEPT !.t = <<Norm(1, 2), Norm(3, 2), Norm(5, 2)>>,
                        !.dt = Ones(m),
                        !.refTAC = <<One, Norm(6, 5), One>>,
                        !.TAC = Vec(<<Zero, Norm(1, 2), Norm(4, 5)>>)]

\* models to fit, frames at minutes 1, 2, ...: one-row models of m..MaxFrames
\* frames with every TAC of Boluses, and two-row models of m frames whose
\* second row is all zero or 0, 1, 1; and the scenario
FitFamily ==
    UNION {
        {[GoodArgs(n) EXCEPT !.TAC = Vec(tac), !.startActivity = sa,
                             !.weights = Policy(w)] :
            tac \in Boluses(n),
            sa \in startActivity_values,
            w \in {"none", "frameduration", "frameduration_activity"}} :
        n \in m..MaxFrames}
    \cup
    {[GoodArgs(m) EXCEPT !.TAC = Mat(<<tac, row2>>), !.startActivity = sa] :
        tac \in Boluses(m),
        row2 \in {<<Zero, Zero, Zero>>, <<Zero, One, One>>},
        sa \in startActivity_values}
    \cup {Scenario}

\* calls that exercise the input checks of lines 76-121, each with and
\* without row names: times of 1..MaxCheck frames with TACs of every number
\* of dimensions; durations of 1..MaxCheck frames with a reference TAC of the
\* right length or one longer; the two flags, half-lives and policy names
CheckInputs ==
    LET b == GoodArgs(MaxCheck)
        l == UNION {SeqsOf(Vals(-1, MaxCheck), n) : n \in 1..MaxCheck}
        d == UNION {SeqsOf(Vals(0, 1), n) : n \in 1..MaxCheck}
        tacs == {Vec(Ones(MaxCheck)), Vec(Ones(MaxCheck + 1)),
                 Vec([Ones(MaxCheck) EXCEPT ![1] = Inf]),
                 Vec([Ones(MaxCheck) EXCEPT ![MaxCheck] = NaN]),
                 Mat(<<Ones(MaxCheck), Ones(MaxCheck)>>),
                 Mat(<<Ones(MaxCheck), [Ones(MaxCheck) EXCEPT ![1] = FNeg(Inf)]>>),
                 Mat(<<Ones(MaxCheck + 1)>>), Cube}
        nms == {NoNames, Names(<<"roi1">>), Names(<<"roi1", "roi2">>)}
    IN  {[b EXCEPT !.t = t, !.TAC = tac, !.TAC_rownames = nm] :
            t \in l, tac \in tacs, nm \in nms}
        \cup
        {[b EXCEPT !.dt = dt, !.refTAC = Ones(r), !.TAC_rownames = nm] :
            dt \in d, r \in {MaxCheck, MaxCheck + 1}, nm \in nms}
        \cup
        {[b EXCEPT !.oneD = o, !.timeUnits = u, !.halflife = h,
                   !.startActivity = sa] :
            o \in BOOLEAN, u \in BOOLEAN, h \in {NaN, R(-1), Zero, One},
            sa \in startActivity_values \cup {"linear"}}

\* the TACs of the calls that exercise the weights: one row, or as many rows
\* as frames
WeightTACs ==
    {Vec(c) : c \in Boluses(MaxCheck)}
    \cup {Mat(Tup([k \in 1..MaxCheck |-> IF k = 1 THEN c ELSE Ones(MaxCheck)])) :
             c \in Boluses(MaxCheck)}

\* rows of custom weights of c entries: increasing, with a negative entry,
\* all zero
WeightRows(c) ==
    {Ramp(c), [Ramp(c) EXCEPT ![1] = R(-1)], Tup([j \in 1..c |-> Zero])}

\* calls that exercise lines 131-170: every policy name on every TAC of
\* WeightTACs, the decay and trues policies with and without their inputs,
\* two names that are no policy, and custom vectors and matrices of up to
\* MaxCheck + 1 rows and columns on TACs of ones
CheckWeights ==
    LET b == GoodArgs(MaxCheck)
        ones(r) == IF r = 0 THEN Vec(Ones(MaxCheck))
                   ELSE Mat(Tup([k \in 1..r |-> Ones(MaxCheck)]))
    IN  {[b EXCEPT !.TAC = tac, !.weights = Policy(w), !.halflife = h] :
            tac \in WeightTACs, h \in {NaN, One},
            w \in {"none", "frameduration", "frameduration_activity",
                   "frameduration_activity_decay", "dt", "bogus"}}
        \cup
        {[b EXCEPT !.TAC = ones(r), !.weights = Policy("trues"), !.halflife = h,
                   !.Trues = tr] :
            r \in 0..MaxCheck, h \in {NaN, One},
            tr \in {NoArray, Vec(Ramp(MaxCheck)), ones(1), ones(MaxCheck)}}
        \cup
        {[b EXCEPT !.TAC = ones(r), !.weights = Custom(w)] :
            r \in 0..(MaxCheck + 1),
            w \in UNION {{Vec(v) : v \in WeightRows(c)} \cup
                         UNION {{Mat(vs) : vs \in SeqsOf(WeightRows(c), k)} :
                                k \in 1..(MaxCheck + 1)} :
                         c \in 1..(MaxCheck + 1)}}

ConstructorCalls == FitFamily \cup CheckInputs \cup CheckWeights

\* smoothTAC arguments: None, an all-zero vector, a matrix of TAC's shape, and
\* a vector and a matrix of other shapes
SmoothArgs(mdl) ==
    LET n == Len(mdl.t)
        rows == Len(mdl.TAC)
    IN  {NoArray, Vec(Tup([i \in 1..n |-> Zero])),
         Mat(Tup([k \in 1..rows |-> Tup([i \in 1..n |-> R((i + k) % 2)])])),
         Vec(Ones(n + 1)), Mat(Tup([k \in 1..(rows + 1) |-> Ones(n)]))}

Init ==
    /\ call = NoCall
    /\ returned = <<>>
    /\ raised = "none"
    /\ ctor = NoArgs
    /\ cls = ""
    /\ self = NoModel
    /\ fitArg = NoArray
    /\ refineArg = NoRefineArgs
    /\ rowsDone = 0
    /\ op = ""

\* km = SRTM_Zhou2003(t, dt, TAC, refTAC, ...), once
Construct ==
    /\ op = ""
    /\ \E a \in ConstructorCalls :
          /\ op' = "__init__"
          /\ ctor' = a
          /\ LET made == KineticModel_init(a)
             IN  /\ raised' = made.raised
                 /\ self' = made.self
                 /\ cls' = IF made.raised = "none" THEN "SRTM_Zhou2003" ELSE ""
          /\ UNCHANGED <<call, returned, fitArg, refineArg, rowsDone>>

\* km.fit(smoothTAC=...)
Fit ==
    /\ cls = "SRTM_Zhou2003"
    /\ \E smoothTAC \in SmoothArgs(self) :
          /\ op' = "fit"
          /\ fitArg' = smoothTAC
          /\ LET fitted == fit(self, smoothTAC)
             IN  /\ raised' = fitted.raised
                 /\ rowsDone' = fitted.rows
                 /\ self' = [self EXCEPT !.results = fitted.results]
          /\ refineArg' = NoRefineArgs
          /\ UNCHANGED <<call, returned, ctor, cls>>

Next == Construct \/ Fit

Spec == Init /\ [][Next]_vars

----------------------------------------------------------------------------
(* Specification SpecRefine: a model is constructed once, then fitted and  *)
(* refined in any order                                                    *)

\* a model of two rows of which the 'trues' weights have one row only
ShortWeights ==
    [GoodArgs(m) EXCEPT !.TAC = Mat(<<<<One, One, Zero>>, <<Zero, One, One>>>>),
                        !.weights = Policy("trues"), !.halflife = One,
                        !.Trues = Mat(<<Ones(m)>>)]

\* models to refine, of m frames: two rows, the first with both equations
\* singular, with one of them singular, or with both solvable, the second
\* solvable; a model of one row; and the model of ShortWeights
RefineFamily ==
    {[GoodArgs(m) EXCEPT !.TAC = Mat(<<row1, <<Zero, One, One>>>>)] :
        row1 \in {<<Zero, Zero, Zero>>, <<Zero, One, Zero>>,
                  <<One, Zero, Zero>>, <<One, One, Zero>>}}
    \cup {[GoodArgs(m) EXCEPT !.TAC = Vec(<<One, One, Zero>>)], ShortWeights}

\* arguments of refine_R1 for a model of r rows: smoothed parameters that are
\* finite or missing on the first row, with h all zero or all one; and
\* arguments with one defect each (an array of another number of dimensions
\* or of another length, an h of another shape)
RefineArgs(r) ==
    LET const(v, l) == Vec(Tup([k \in 1..l |-> v]))
        hmat(v, l, c) == Mat(Tup([k \in 1..l |-> Tup([j \in 1..c |-> v])]))
        good == [smoothR1 |-> const(One, r), smoothk2 |-> const(Two, r),
                 smoothk2a |-> const(Zero, r), h |-> hmat(Zero, r, 3)]
    IN  {[good EXCEPT !.smoothR1 = Vec([const(One, r).v EXCEPT ![1] = v]),
                      !.h = hmat(hv, r, 3)] :
            v \in {One, NaN}, hv \in {Zero, One}}
        \cup
        {[good EXCEPT !.smoothR1 = hmat(One, 1, r)],
         [good EXCEPT !.smoothk2 = Cube],
         [good EXCEPT !.smoothk2a = hmat(One, r, 1)],
         [good EXCEPT !.smoothR1 = const(One, r + 1),
                      !.smoothk2 = const(Two, r + 1),
                      !.smoothk2a = const(Zero, r + 1)],
         [good EXCEPT !.smoothk2 = const(Two, r + 1)],
         [good EXCEPT !.h = Vec(<<Zero, Zero, Zero>>)],
         [good EXCEPT !.h = Cube],
         [good EXCEPT !.h = hmat(Zero, r + 1, 3)],
         [good EXCEPT !.h = hmat(Zero, r, 2)]}

\* km = SRTM_Zhou2003(t, dt, TAC, refTAC, ...), once, for a model to refine
ConstructRefinable ==
    /\ op = ""
    /\ \E a \in RefineFamily :
          /\ op' = "__init__"
          /\ ctor' = a
          /\ LET made == KineticModel_init(a)
             IN  /\ raised' = made.raised
                 /\ self' = made.self
                 /\ cls' = IF made.raised = "none" THEN "SRTM_Zhou2003" ELSE ""
          /\ UNCHANGED <<call, returned, fitArg, refineArg, rowsDone>>

\* km.refine_R1(smoothR1, smoothk2, smoothk2a, h)
Refine ==
    /\ cls = "SRTM_Zhou2003"
    /\ \E a \in RefineArgs(Len(self.TAC)) :
          /\ op' = "refine_R1"
          /\ refineArg' = a
          /\ fitArg' = NoArray
          /\ LET refined == refine_R1(self, a)
             IN  /\ raised' = refined.raised
                 /\ rowsDone' = refined.rows
                 /\ self' = [self EXCEPT !.results = refined.results]
          /\ UNCHANGED <<call, returned, ctor, cls>>

NextRefine == ConstructRefinable \/ Fit \/ Refine

SpecRefine == Init /\ [][NextRefine]_vars

----------------------------------------------------------------------------
(* Specification SpecEstimators: a model of one of the three estimators is *)
(* constructed once, then fitted                                           *)

\* the concrete estimators
Estimators == {"SRTM_Zhou2003", "SRTM_Lammertsma1996", "SRTM_Gunn1997"}

\* rows of weights of m frames: even, on the first frame only, on the last
\* two frames
EstimatorWeights == {Ones(m), <<One, Zero, Zero>>, <<Zero, One, One>>}

\* models of two rows and m frames: the rows of the TAC and of the custom
\* weights vary one by one, the reference TAC is 2, 1, 2 or all zero; and a
\* model like ShortWeights whose one row of weights is even
EstimatorFamily ==
    {[GoodArgs(m) EXCEPT !.TAC = Mat(<<row1, row2>>),
                         !.weights = Custom(Mat(<<w1, w2>>)),
                         !.refTAC = ref] :
        row1 \in {<<One, One, Zero>>, <<Zero, One, Two>>},
        row2 \in {<<Zero, One, One>>, <<One, One, Zero>>},
        w1 \in EstimatorWeights, w2 \in EstimatorWeights,
        ref \in {Alt(m), <<Zero, Zero, Zero>>}}
    \cup {[ShortWeights EXCEPT !.Trues = Mat(<<<<R(16), One, One>>>>)]}

\* cls(t, dt, TAC, refTAC, ...) as [raised, self]
estimator_init(c, a) ==
    IF c = "SRTM_Gunn1997" THEN Gunn1997_init(a)
    ELSE IF c = "SRTM_Lammertsma1996" THEN Lammertsma1996_init(a)
    ELSE KineticModel_init(a)

\* km = cls(t, dt, TAC, refTAC, ...), once, for any of the estimators
ConstructEstimator ==
    /\ op = ""
    /\ \E c \in Estimators : \E a \in EstimatorFamily :
          /\ op' = "__init__"
          /\ ctor' = a
          /\ LET made == estimator_init(c, a)
             IN  /\ raised' = made.raised
                 /\ self' = made.self
                 /\ cls' = IF made.raised = "none" THEN c ELSE ""
          /\ UNCHANGED <<call, returned, fitArg, refineArg, rowsDone>>

\* km.fit() of SRTM_Gunn1997
FitGunn ==
    /\ cls = "SRTM_Gunn1997"
    /\ op' = "fit"
    /\ LET fitted == Gunn1997_fit(self)
       IN  /\ raised' = fitted.raised
           /\ rowsDone' = fitted.rows
           /\ self' = [self EXCEPT !.results = fitted.results]
    /\ fitArg' = NoArray
    /\ refineArg' = NoRefineArgs
    /\ UNCHANGED <<call, returned, ctor, cls>>

\* km.fit() of SRTM_Lammertsma1996
FitLammertsma ==
    /\ cls = "SRTM_Lammertsma1996"
    /\ \E found \in SeqsOf(Found, Len(self.TAC)) :
          /\ op' = "fit"
          /\ LET fitted == Lammertsma1996_fit(self, found)
             IN  /\ raised' = fitted.raised
                 /\ rowsDone' = fitted.rows
                 /\ self' = [self EXCEPT !.results = fitted.results]
          /\ fitArg' = NoArray
          /\ refineArg' = NoRefineArgs
          /\ UNCHANGED <<call, returned, ctor, cls>>

NextEstimators == ConstructEstimator \/ Fit \/ FitGunn \/ FitLammertsma

SpecEstimators == Init /\ [][NextEstimators]_vars

\* integrate() has returned a curve
IntegrateReturned == op = "integrate" /\ raised = "none"

\* C1 (as claimed): integrate returns Len(t) entries, the first is the
\* policy's initial value, and every later entry is the entry before it plus
\* the trapezoid between the two samples, so that the initial value is carried
\* into every entry.
C1_InitialValueCarried ==
    IntegrateReturned =>
        /\ Len(returned) = Len(call.t)
        /\ returned[1] = initialIntegralValue(call.TAC, call.t, call.startActivity)
        /\ \A i \in 2..Len(returned) :
              returned[i] = FAdd(returned[i - 1], trapz(call.TAC, call.t, i - 1))

\* C2 (as claimed): for a curve of values >= 0 over strictly increasing times
\* with t[0] >= 0, the returned integral never decreases from one index to the
\* next, the step from the seeded first entry to the second included.
C2_IntegralNonDecreasing ==
    (/\ IntegrateReturned
     /\ \A i \in 1..Len(call.TAC) : FLeq(Zero, call.TAC[i])
     /\ strictly_increasing(call.t)
     /\ FLeq(Zero, call.t[1]))
    => \A i \in 1..(Len(returned) - 1) : FLeq(returned[i], returned[i + 1])

----------------------------------------------------------------------------
(* The constructor                                                         *)

\* the constructor has just run on the arguments in ctor
Constructed == op = "__init__"

\* C3 (as claimed): after a successful construction, whatever the weighting
\* policy, every entry of the stored weights is a finite number >= 0 and
\* every row of the stored weights sums to 1.
C3_WeightsNormalized ==
    self # NoModel =>
        \A k \in 1..Len(self.weights) :
            /\ \A j \in 1..Len(self.weights[k]) :
                  IsFinite(self.weights[k][j]) /\ FLeq(Zero, self.weights[k][j])
            /\ FSum(self.weights[k]) = One

\* the arguments have one of the defects C5 lists: a non-finite TAC value,
\* t[0] < 0, t not strictly increasing, some dt <= 0, t, dt and refTAC of
\* different lengths, or a TAC whose number of frames is not len(t)
DefectiveInputs(a) ==
    LET flat == a.TAC.ndim \in {1, 2}
        frames == IF a.TAC.ndim = 1 THEN len(a.TAC) ELSE shape(a.TAC)[2]
    IN  \/ flat /\ \E k \in 1..Len(tile(a.TAC, 1)) : ~AllFinite(tile(a.TAC, 1)[k])
        \/ FLess(a.t[1], Zero)
        \/ ~strictly_increasing(a.t)
        \/ \E j \in 1..Len(a.dt) : FLeq(a.dt[j], Zero)
        \/ ~(Len(a.t) = Len(a.dt) /\ Len(a.dt) = Len(a.refTAC))
        \/ flat /\ frames # Len(a.t)

\* C5 (as claimed): a construction on arguments with one of the listed defects
\* fails with InvalidInput (ValueError) and leaves no model instance.
C5_DefectsRaiseInvalidInput ==
    (Constructed /\ DefectiveInputs(ctor)) =>
        (raised = "ValueError" /\ self = NoModel)

\* C6 (as claimed): when row names are supplied and the other arguments are
\* valid, the construction fails with InvalidInput (ValueError) exactly when
\* the number of names differs from the number of TAC rows, and a list of as
\* many names as rows is accepted and stored.
C6_RowNamesChecked ==
    (/\ Constructed
     /\ ctor.TAC_rownames.given
     /\ KineticModel_init([ctor EXCEPT !.TAC_rownames = NoNames]).raised = "none")
    => LET count == Len(ctor.TAC_rownames.names)
           rows == Len(tile(ctor.TAC, 1))
       IN  /\ (raised = "ValueError") <=> (count # rows)
           /\ count = rows =>
                 (raised = "none" /\ self.TAC_rownames = ctor.TAC_rownames)

\* C7 (as claimed): when the other arguments pass the input checks, a custom
\* weights array whose shape is neither (len(t),) nor (rows, len(t)), and a
\* weights name that is no policy, make the construction fail with
\* InvalidInput (ValueError).
C7_BadWeightsRejected ==
    LET w == ctor.weights
        custom == w.ndim # 0
        fits == shape(w) \in {<<Len(ctor.t)>>, <<Len(tile(ctor.TAC, 1)), Len(ctor.t)>>}
        unknown == w.ndim = 0 /\ w.name \notin weights_values
    IN  (/\ Constructed
         /\ inputChecks(ctor) = "none"
         /\ (custom /\ ~fits) \/ unknown)
        => (raised = "ValueError" /\ self = NoModel)

\* C8 (as claimed): when the weights are a custom matrix of TAC's shape
\* (rows, frames), the construction stores weights of that shape whose entry
\* (k, j) is |w[k][j]| divided by the sum of |w[k][.]|, also when rows = frames.
C8_CustomMatrixKeptRowwise ==
    LET w == ctor.weights
        rows == Len(tile(ctor.TAC, 1))
        n == Len(ctor.t)
        abs(k) == Tup([j \in 1..n |-> FAbs(w.v[k][j])])
    IN  (/\ Constructed
         /\ inputChecks(ctor) = "none"
         /\ w.ndim = 2
         /\ shape(w) = <<rows, n>>)
        => /\ raised = "none"
           /\ Len(self.weights) = rows
           /\ \A k \in 1..rows :
                 /\ Len(self.weights[k]) = n
                 /\ \A j \in 1..n :
                       self.weights[k][j] = FDiv(abs(k)[j], FSum(abs(k)))

----------------------------------------------------------------------------
(* SRTM_Zhou2003.fit                                                       *)

\* fit() has just returned
FitReturned == op = "fit" /\ raised = "none"

\* C4 (as claimed): after fit() returned, each of the ten declared results
\* holds a finite value on every row, never the missing marker.
C4_AllResultsFinite ==
    FitReturned =>
        \A name \in ResultNames : \A k \in 1..Len(self.TAC) :
            IsFinite(self.results[name][k])

\* C4 (amended): after fit() returned, on every row BP, DVR, R1, k2 and k2a are
\* finite and R1_lrsc, k2_lrsc, k2a_lrsc still hold the missing marker; each
\* noise variance is finite when its equation's solve failed (it is then 0)
\* or the model has more than m = 3 frames, and is not finite when the solve
\* succeeded on a model of exactly 3 frames (a quotient by n - m = 0).
C4_FitFillsSevenResults ==
    FitReturned =>
        \A k \in 1..Len(self.TAC) :
            /\ \A name \in {"BP", "DVR", "R1", "k2", "k2a"} :
                  IsFinite(self.results[name][k])
            /\ \A name \in {"R1_lrsc", "k2_lrsc", "k2a_lrsc"} :
                  IsNaN(self.results[name][k])
            /\ IsFinite(self.results["noiseVar_eqDVR"][k])
                  <=> (~eqDVR(self, k, fitArg).solved \/ Len(self.t) > m)
            /\ IsFinite(self.results["noiseVar_eqR1"][k])
                  <=> (~eqR1(self, k).solved \/ Len(self.t) > m)

\* C4 (case reached): fit() returned on the three-frame scenario, whose two
\* equations were solved: BP is finite, R1_lrsc and both noise variances are
\* not.
C4_ScenarioFitted ==
    /\ FitReturned
    /\ ctor = Scenario
    /\ fitArg = NoArray
    /\ eqDVR(self, 1, fitArg).solved
    /\ eqR1(self, 1).solved
    /\ IsFinite(self.results["BP"][1])
    /\ ~IsFinite(self.results["R1_lrsc"][1])
    /\ ~IsFinite(self.results["noiseVar_eqDVR"][1])
    /\ ~IsFinite(self.results["noiseVar_eqR1"][1])

\* C9 (as claimed): a call of fit() that passed the check of smoothTAC does not
\* raise and processes every row; on a row whose DVR solve failed DVR, BP and
\* noiseVar_eqDVR are 0 and the R1 outputs are those of the R1 equation, and on
\* a row whose R1 solve failed R1, k2, k2a and noiseVar_eqR1 are 0 and the DVR
\* outputs are those of the DVR equation.
C9_DegradeAndContinue ==
    (op = "fit" /\ smoothTACcheck(self, fitArg) = "none") =>
        /\ raised = "none"
        /\ rowsDone = Len(self.TAC)
        /\ \A k \in 1..Len(self.TAC) :
              LET d == eqDVR(self, k, fitArg)
                  r == eqR1(self, k)
                  res(name) == self.results[name][k]
              IN  /\ ~d.solved =>
                        /\ res("DVR") = Zero /\ res("BP") = Zero
                        /\ res("noiseVar_eqDVR") = Zero
                        /\ res("R1") = r.R1 /\ res("k2") = r.k2 /\ res("k2a") = r.k2a
                        /\ res("noiseVar_eqR1") = r.noiseVar_eqR1
                  /\ ~r.solved =>
                        /\ res("R1") = Zero /\ res("k2") = Zero /\ res("k2a") = Zero
                        /\ res("noiseVar_eqR1") = Zero
                        /\ res("DVR") = d.DVR /\ res("BP") = d.BP
                        /\ res("noiseVar_eqDVR") = d.noiseVar_eqDVR

\* C10 (as claimed): after fit() returned, BP[k] = DVR[k] - 1 on every row,
\* rows whose DVR equation degraded included.
C10_BPIsDVRMinusOne ==
    FitReturned =>
        \A k \in 1..Len(self.TAC) :
            self.results["BP"][k] = FSub(self.results["DVR"][k], One)

\* C10 (amended): after fit() returned, BP[k] = DVR[k] - 1 on every row whose
\* DVR equation was solved, and BP[k] = DVR[k] = 0 on every row whose DVR
\* equation degraded.
C10_BPFollowsDVRWhenSolved ==
    FitReturned =>
        \A k \in 1..Len(self.TAC) :
            IF eqDVR(self, k, fitArg).solved
            THEN self.results["BP"][k] = FSub(self.results["DVR"][k], One)
            ELSE self.results["BP"][k] = Zero /\ self.results["DVR"][k] = Zero

\* C10 (case reached): fit() returned on a model of two rows, the DVR equation
\* of one solved with a DVR other than 0, that of the other degraded.
C10_SolvedAndDegradedRows ==
    /\ FitReturned
    /\ Len(self.TAC) = 2
    /\ \E k \in 1..2 :
          /\ eqDVR(self, k, fitArg).solved
          /\ self.results["DVR"][k] # Zero
          /\ IsFinite(self.results["DVR"][k])
          /\ ~eqDVR(self, 3 - k, fitArg).solved
          /\ self.results["BP"][3 - k] = Zero

----------------------------------------------------------------------------
(* Refinement                                                              *)

\* refine_R1() has returned
RefineReturned == op = "refine_R1" /\ raised = "none"

\* fit() has written every row of the model: it stores a finite R1 on every
\* row it completes, and R1 holds the missing marker before
FitHasRun == \A k \in 1..Len(self.TAC) : ~IsNaN(self.results["R1"][k])

\* h is the all-zero matrix
ZeroH(a) == \A k \in 1..Len(a.h.v) : \A j \in 1..Len(a.h.v[k]) : a.h.v[k][j] = Zero

\* the smoothed parameters of row k are finite
FiniteSmoothed(a, k) ==
    IsFinite(a.smoothR1.v[k]) /\ IsFinite(a.smoothk2.v[k]) /\ IsFinite(a.smoothk2a.v[k])

\* the refined triple of row k equals the triple fit() stored
LrscEqualsFit(k) ==
    /\ self.results["R1_lrsc"][k] = self.results["R1"][k]
    /\ self.results["k2_lrsc"][k] = self.results["k2"][k]
    /\ self.results["k2a_lrsc"][k] = self.results["k2a"][k]

\* C11 (as claimed): on a model fit() has run on, after refine_R1() returned
\* from a call with an all-zero h, whatever the smoothed parameters, every row
\* has R1_lrsc = R1, k2_lrsc = k2 and k2a_lrsc = k2a.
C11_ZeroHReducesToFit ==
    (RefineReturned /\ ZeroH(refineArg) /\ FitHasRun) =>
        \A k \in 1..Len(self.TAC) : LrscEqualsFit(k)

\* C11 (amended): on a model fit() has run on, after refine_R1() returned from
\* a call with an all-zero h, a row whose smoothed parameters are finite has
\* R1_lrsc = R1, k2_lrsc = k2 and k2a_lrsc = k2a, and a row with a smoothed
\* parameter that is not finite has the three refined values 0.
C11_ZeroHReducesWhenFinite ==
    (RefineReturned /\ ZeroH(refineArg) /\ FitHasRun) =>
        \A k \in 1..Len(self.TAC) :
            IF FiniteSmoothed(refineArg, k) THEN LrscEqualsFit(k)
            ELSE /\ self.results["R1_lrsc"][k] = Zero
                 /\ self.results["k2_lrsc"][k] = Zero
                 /\ self.results["k2a_lrsc"][k] = Zero

\* C11 (case reached): refine_R1() returned from a call with an all-zero h on
\* a fitted model of two rows: the first row, whose smoothed R1 is missing,
\* has R1_lrsc = 0 beside an R1 other than 0, and the second has the R1
\* other than 0 that fit() stored.
C11_ZeroHOnFittedRows ==
    /\ RefineReturned /\ ZeroH(refineArg) /\ FitHasRun
    /\ Len(self.TAC) = 2
    /\ ~FiniteSmoothed(refineArg, 1)
    /\ self.results["R1"][1] # Zero
    /\ self.results["R1_lrsc"][1] = Zero
    /\ FiniteSmoothed(refineArg, 2)
    /\ self.results["R1"][2] # Zero
    /\ LrscEqualsFit(2)

\* the arguments a of refine_R1 have a defect: a smoothed array that is not
\* 1-D, lengths that are not all the number of rows, or an h whose shape is
\* not (rows, 3)
RefineDefective(mdl, a) ==
    \/ a.smoothR1.ndim # 1 \/ a.smoothk2.ndim # 1 \/ a.smoothk2a.ndim # 1
    \/ len(a.smoothR1) # Len(mdl.TAC) \/ len(a.smoothk2) # Len(mdl.TAC)
    \/ len(a.smoothk2a) # Len(mdl.TAC)
    \/ shape(a.h) # <<Len(mdl.TAC), 3>>

LrscNames == {"R1_lrsc", "k2_lrsc", "k2a_lrsc"}

\* C13: a call of fit() leaves R1_lrsc, k2_lrsc and k2a_lrsc as they were
\* (missing before the first refine_R1(), the refined values after it), and a
\* call of refine_R1() leaves the seven other names as they were.
C13_LrscOnlyByRefine ==
    [][/\ op' = "fit" =>
             \A name \in LrscNames : self'.results[name] = self.results[name]
       /\ op' = "refine_R1" =>
             \A name \in ResultNames \ LrscNames :
                 self'.results[name] = self.results[name]]_vars

\* C13 (case reached): fit() returned after a refine_R1(): the first row
\* still holds the refined R1_lrsc, which differs from the R1 fit() stored.
C13_FitAfterRefine ==
    /\ FitReturned
    /\ IsFinite(self.results["R1_lrsc"][1])
    /\ self.results["R1_lrsc"][1] # self.results["R1"][1]

\* the inputs of a model: everything but its results
Inputs(mdl) ==
    <<mdl.t, mdl.dt, mdl.TAC, mdl.refTAC, mdl.weights, mdl.startActivity,
      mdl.halflife>>

\* C16: once constructed, across the calls of fit() and refine_R1(),
\* returning or raising, the model keeps its t, dt, TAC, refTAC, weights,
\* startActivity and halflife, and its results keep the declared names as
\* keys, each with one entry per row of TAC; the results start all missing.
C16_OnlyResultValuesChange ==
    [][self' # NoModel =>
          /\ DOMAIN self'.results = ResultNames
          /\ \A name \in ResultNames :
                Len(self'.results[name]) = Len(self'.TAC)
          /\ self # NoModel => Inputs(self') = Inputs(self)
          /\ self = NoModel =>
                \A name \in ResultNames : \A k \in 1..Len(self'.TAC) :
                    IsNaN(self'.results[name][k])]_vars

\* C16 (case reached): refine_R1() raised IndexError after fit() had, each
\* having written the first of the two rows of the model only.
C16_CallsStoppedEarly ==
    /\ op = "refine_R1" /\ raised = "IndexError" /\ rowsDone = 1
    /\ Len(self.TAC) = 2
    /\ IsFinite(self.results["R1"][1]) /\ IsNaN(self.results["R1"][2])
    /\ IsFinite(self.results["R1_lrsc"][1]) /\ IsNaN(self.results["R1_lrsc"][2])

\* smoothTAC has another shape than TAC; a 1-D smoothTAC has the shape of a
\* TAC of one row
Misshapen(mdl, smoothTAC) ==
    IF smoothTAC.ndim = 1
    THEN ~(Len(mdl.TAC) = 1 /\ len(smoothTAC) = Len(mdl.t))
    ELSE shape(smoothTAC) # <<Len(mdl.TAC), Len(mdl.t)>>

\* C17 (as claimed): a call of fit() with a smoothTAC of another shape than
\* TAC raises ValueError before it writes any result.
C17_MisshapenSmoothTACRejected ==
    (op = "fit" /\ fitArg.ndim # 0 /\ Misshapen(self, fitArg)) =>
        (raised = "ValueError" /\ rowsDone = 0)

\* the names the R1 equation fills
R1Names == {"R1", "k2", "k2a", "noiseVar_eqR1"}

\* C18: after fit() returned from a call with a smoothTAC, R1, k2, k2a and
\* noiseVar_eqR1 are, on every row, what fit() without smoothTAC stores.
C18_SmoothTACOnlyInDVR ==
    (FitReturned /\ fitArg.ndim # 0) =>
        \A name \in R1Names :
            self.results[name] = fit(self, NoArray).results[name]

\* C18 (case reached): fit() returned from a call with a smoothTAC on a row
\* whose R1 equation was solved with an R1 other than 0 and whose DVR is not
\* the DVR that fit() without smoothTAC stores.
C18_SmoothTACChangedDVR ==
    /\ FitReturned /\ fitArg.ndim # 0
    /\ \E k \in 1..Len(self.TAC) :
          /\ eqR1(self, k).solved
          /\ self.results["R1"][k] # Zero
          /\ self.results["DVR"][k] # fit(self, NoArray).results["DVR"][k]

----------------------------------------------------------------------------
(* The three estimators                                                    *)

\* fit() of SRTM_Gunn1997 has run, returning or raising
GunnFitted == cls = "SRTM_Gunn1997" /\ op = "fit"

\* the solve of energy_fun is singular at a theta3 the search of row k tries
SingularRow(mdl, k) ==
    k <= Len(mdl.weights) /\ minimize_scalar(mdl, k).raised = "LinAlgError"

\* C14: after fit() of SRTM_Gunn1997, on a row k whose solve is singular
\* fit() has raised (LinAlgError when k is the first row to fail) and BP, R1
\* and k2 of row k hold the missing marker, not 0 or another value.
C14_SingularSolvePropagates ==
    GunnFitted =>
        \A k \in 1..Len(self.TAC) :
            SingularRow(self, k) =>
                /\ raised # "none"
                /\ rowsDone < k
                /\ rowsDone = k - 1 => raised = "LinAlgError"
                /\ \A name \in GunnNames : IsNaN(self.results[name][k])

\* C14 (case reached): fit() of SRTM_Gunn1997 raised LinAlgError on the
\* second row, whose solve is singular, after it had stored the first.
C14_SecondRowSingular ==
    /\ GunnFitted
    /\ raised = "LinAlgError" /\ rowsDone = 1
    /\ SingularRow(self, 2)
    /\ IsFinite(self.results["R1"][1])
    /\ IsNaN(self.results["R1"][2])

\* the models mdl and other agree on the shared inputs and on the TAC and
\* the weights of row k
SameRow(mdl, other, k) ==
    /\ other # NoModel
    /\ other.t = mdl.t /\ other.dt = mdl.dt /\ other.refTAC = mdl.refTAC
    /\ other.startActivity = mdl.startActivity
    /\ k <= Len(other.TAC) /\ other.TAC[k] = mdl.TAC[k]
    /\ k <= Len(other.weights) /\ k <= Len(mdl.weights)
    /\ other.weights[k] = mdl.weights[k]

\* the results fit() leaves on a model of class c that was just constructed,
\* for the two estimators whose fit() is a function of its inputs
resultsAfterFit(c, mdl, smoothTAC) ==
    IF c = "SRTM_Gunn1997" THEN Gunn1997_fit(mdl).results
    ELSE fit(mdl, smoothTAC).results

\* C15 (as claimed): after fit(), the results of row k are those fit()
\* leaves on any other model that agrees on the shared inputs and on row k's
\* TAC and weights, whatever its other rows are.  Stated for SRTM_Gunn1997
\* and, after a call that returned, for SRTM_Zhou2003.
C15_RowsIndependent ==
    (op = "fit" /\ (cls = "SRTM_Gunn1997"
                    \/ (cls = "SRTM_Zhou2003" /\ raised = "none"))) =>
        \A b \in EstimatorFamily : \A k \in 1..Len(self.TAC) :
            SameRow(self, estimator_init(cls, b).self, k) =>
                \A name \in DOMAIN self.results :
                    resultsAfterFit(cls, estimator_init(cls, b).self, fitArg)[name][k]
                        = self.results[name][k]

====
